---- MODULE Spec2Model ----
(***************************************************************************)
(* fbclock: a clock drawn at the bottom of a memory-mapped framebuffer.    *)
(* The module models src/fbclock.c: startup (main, get_arguments,          *)
(* map_framebuffer, get_framebuffer_info), the render loop (run_clock,     *)
(* get_asctime, add_power_level_to_text, clear_time, draw_char) and the    *)
(* shutdown signal (handle_signal).                                        *)
(*                                                                         *)
(* Text is a sequence of character codes.  Byte offsets are relative to    *)
(* the start of the mapping (clock->video).                                *)
(***************************************************************************)
EXTENDS Integers, Sequences, FiniteSets, TLC

FONT_WIDTH == 8
FONT_HEIGHT == 8

\* A text buffer sized for the timestamp alone (asctime's 26 bytes).
MAX_TEXT_LEN_TimestampOnly == 25 + 1

MAX_TEXT_LEN == 128

\* Cap on the number of SIGINT deliveries that are counted.
MaxSignals == 2

(***************************************************************************)
(* C integer arithmetic.                                                   *)
(***************************************************************************)
\* A 32-bit unsigned value (__u32, unsigned int) is held as carry * 2^32 +
\* low, with low between -2^31 and 2^31: the model checker's integers have
\* 32 bits, so 2^32 itself cannot be written.  U32(n) is n modulo 2^32.
U32(n) == [carry |-> IF n < 0 THEN 1 ELSE 0, low |-> n]

\* Conversion of a 32-bit unsigned to int (two's complement).
ToInt32(u) == u.low

\* The product of an unsigned and an integer, modulo 2^32.
MulU32(u, m) == U32(u.low * m)

\* A pointer advanced by a 32-bit unsigned, then by an int.
PtrAdd(ptr, u, n) == [carry |-> ptr.carry + u.carry, low |-> ptr.low + u.low + n]

(***************************************************************************)
(* Characters.  Ord gives the ASCII code of a letter or of one of the       *)
(* punctuation characters the program's literals use.                      *)
(***************************************************************************)
Letters ==
  << "A", "B", "C", "D", "E", "F", "G", "H", "I", "J", "K", "L", "M", "N",
     "O", "P", "Q", "R", "S", "T", "U", "V", "W", "X", "Y", "Z", "a", "b",
     "c", "d", "e", "f", "g", "h", "i", "j", "k", "l", "m", "n", "o", "p",
     "q", "r", "s", "t", "u", "v", "w", "x", "y", "z" >>

Ord(c) ==
  IF c = " " THEN 32
  ELSE IF c = "!" THEN 33
  ELSE IF c = "%" THEN 37
  ELSE IF c = "-" THEN 45
  ELSE IF c = ":" THEN 58
  ELSE LET k == CHOOSE j \in 1..Len(Letters) : Letters[j] = c
       IN  IF k <= 26 THEN 64 + k ELSE 70 + k

\* The C string made of the given characters.
Str(cs) == [k \in 1..Len(cs) |-> Ord(cs[k])]

IsDigit(c) == c >= 48 /\ c <= 57

\* isspace() in the C locale.
IsSpace(c) == c = 32 \/ (c >= 9 /\ c <= 13)

(***************************************************************************)
(* printf conversions used by asctime and by add_power_level_to_text.      *)
(***************************************************************************)
RECURSIVE Digits(_)
\* Decimal digits of n >= 0, most significant first.
Digits(n) == IF n < 10 THEN << 48 + n >> ELSE Append(Digits(n \div 10), 48 + (n % 10))

RECURSIVE PadLeft(_, _, _)
PadLeft(s, width, c) == IF Len(s) >= width THEN s ELSE PadLeft(<< c >> \o s, width, c)

\* "%d"
FmtD(n) == IF n < 0 THEN << 45 >> \o Digits(-n) ELSE Digits(n)

\* "%3d": right-justified in a field of three, padded with spaces.
Fmt3D(n) == PadLeft(FmtD(n), 3, 32)

\* "%.2d": at least two digits, padded with zeros.
Fmt02D(n) == IF n < 0 THEN << 45 >> \o PadLeft(Digits(-n), 2, 48)
                      ELSE PadLeft(Digits(n), 2, 48)

RECURSIVE AtoiDigits(_, _, _)
AtoiDigits(s, k, acc) ==
  IF k > Len(s) \/ ~IsDigit(s[k]) THEN acc
  ELSE AtoiDigits(s, k + 1, acc * 10 + (s[k] - 48))

RECURSIVE SkipSpace(_, _)
SkipSpace(s, k) == IF k <= Len(s) /\ IsSpace(s[k]) THEN SkipSpace(s, k + 1) ELSE k

\* atoi(): leading white space, an optional sign, then digits up to the
\* first character that is not a digit.
Atoi(s) ==
  LET k == SkipSpace(s, 1)
  IN  IF k <= Len(s) /\ s[k] = 45 THEN -AtoiDigits(s, k + 1, 0)
      ELSE IF k <= Len(s) /\ s[k] = 43 THEN AtoiDigits(s, k + 1, 0)
      ELSE AtoiDigits(s, k, 0)

RECURSIVE FgetsFrom(_, _, _)
FgetsFrom(content, k, room) ==
  IF k > Len(content) \/ room = 0 THEN << >>
  ELSE IF content[k] = 10 THEN << 10 >>
  ELSE << content[k] >> \o FgetsFrom(content, k + 1, room - 1)

\* fgets(buf, size, file) on a freshly opened file: at most size - 1
\* characters, stopping after a newline.  The empty result stands for the
\* NULL return at end of file, which leaves buf as it was.
Fgets(content, size) == FgetsFrom(content, 1, size - 1)

(***************************************************************************)
(* asctime(): "%.3s %.3s%3d %.2d:%.2d:%.2d %d\n" over the fields of a      *)
(* struct tm (tm_year counts from 1900).                                   *)
(***************************************************************************)
wday_name ==
  << Str(<<"S","u","n">>), Str(<<"M","o","n">>), Str(<<"T","u","e">>),
     Str(<<"W","e","d">>), Str(<<"T","h","u">>), Str(<<"F","r","i">>),
     Str(<<"S","a","t">>) >>

mon_name ==
  << Str(<<"J","a","n">>), Str(<<"F","e","b">>), Str(<<"M","a","r">>),
     Str(<<"A","p","r">>), Str(<<"M","a","y">>), Str(<<"J","u","n">>),
     Str(<<"J","u","l">>), Str(<<"A","u","g">>), Str(<<"S","e","p">>),
     Str(<<"O","c","t">>), Str(<<"N","o","v">>), Str(<<"D","e","c">>) >>

asctime(tm) ==
  wday_name[tm.tm_wday + 1] \o << 32 >> \o mon_name[tm.tm_mon + 1]
    \o Fmt3D(tm.tm_mday) \o << 32 >>
    \o Fmt02D(tm.tm_hour) \o << 58 >> \o Fmt02D(tm.tm_min) \o << 58 >>
    \o Fmt02D(tm.tm_sec) \o << 32 >> \o FmtD(1900 + tm.tm_year) \o << 10 >>

\* The local time the clock is read at: Wed Jan  1 00:00:00 2020.
Tms ==
  { [tm_wday |-> 3, tm_mon |-> 0, tm_mday |-> 1, tm_hour |-> 0, tm_min |-> 0,
     tm_sec |-> 0, tm_year |-> 120] }

NoTm == CHOOSE tm \in Tms : TRUE

\* What time(), localtime() and asctime() return in one tick: time() may
\* return (time_t)-1, localtime() and asctime() may return NULL.
TimeResults ==
  { [now_ok |-> FALSE, local_ok |-> FALSE, string_ok |-> FALSE, tm |-> NoTm],
    [now_ok |-> TRUE, local_ok |-> FALSE, string_ok |-> FALSE, tm |-> NoTm],
    [now_ok |-> TRUE, local_ok |-> TRUE, string_ok |-> FALSE, tm |-> NoTm] }
  \cup { [now_ok |-> TRUE, local_ok |-> TRUE, string_ok |-> TRUE, tm |-> tm] : tm \in Tms }

Resolved(t) == t.now_ok /\ t.local_ok /\ t.string_ok

ErrorGettingTime ==
  Str(<< "E","r","r","o","r"," ","g","e","t","t","i","n","g"," ","t","i","m","e","!" >>)

\* get_asctime with the placeholder copied only when time() fails.
get_asctime_NoFallThrough(t) ==
  IF t.now_ok
  THEN IF t.local_ok /\ t.string_ok THEN asctime(t.tm) ELSE << >>
  ELSE ErrorGettingTime

\* get_asctime(text): the string left in text.
get_asctime(t) ==
  IF t.now_ok
  THEN IF t.local_ok /\ t.string_ok THEN asctime(t.tm) ELSE ErrorGettingTime
  ELSE ErrorGettingTime

(***************************************************************************)
(* The capacity file as one tick finds it: fopen() fails, or the file      *)
(* opens and holds the given characters.  An empty file makes fgets()      *)
(* return NULL and leave char capacity[4] uninitialised; atoi() of it is   *)
(* then any of UninitInts.                                                 *)
(***************************************************************************)
CapacityContents ==
  { << 56, 55, 10 >>,           \* "87\n"
    << 49, 48, 48, 10 >>,       \* "100\n"
    << >> }                     \* empty

CapacityReads ==
  { [opened |-> FALSE, content |-> << >>] }
  \cup { [opened |-> TRUE, content |-> c] : c \in CapacityContents }

UninitInts == { -1094795586 }

\* The values atoi(capacity) can have after fgets(capacity, 4, file).
CapacityValues(content) ==
  IF Fgets(content, 4) = << >> THEN UninitInts ELSE { Atoi(Fgets(content, 4)) }

\* sprintf(text, "- %d%%", n)
PowerSuffix(n) == << 45, 32 >> \o FmtD(n) \o << 37 >>

\* add_power_level_to_text(clock, text) when atoi() gives n: the text left.
add_power_level_to_text(text_, rd, n) ==
  IF rd.opened THEN text_ \o PowerSuffix(n) ELSE text_

(***************************************************************************)
(* The glyph table font8x8_basic[128][8] (font8x8_basic.h): one byte per   *)
(* glyph row, least significant bit leftmost.  The header is not among     *)
(* the sources; the table here gives blank glyphs to the control codes,    *)
(* the space and DEL and a fixed bit pattern to every other code.          *)
(***************************************************************************)
font8x8_basic(ch, row) ==
  IF ch <= 32 \/ ch = 127 THEN 0 ELSE (ch * (2 * row + 3) + row) % 256

\* The test of a row's bits from the most significant one down.
BitAnd_MsbFirst(v, char_bit) == IF (v \div (128 \div char_bit)) % 2 = 1 THEN char_bit ELSE 0

\* v & char_bit, for char_bit a power of two.
BitAnd(v, char_bit) == IF (v \div char_bit) % 2 = 1 THEN char_bit ELSE 0

(***************************************************************************)
(* draw_char and clear_time as the sequence of memset calls they make,     *)
(* each [off, val, len]: len bytes of value val at byte offset off from    *)
(* clock->video.                                                           *)
(***************************************************************************)
RECURSIVE DrawBits(_, _, _, _)
\* The inner loop, while (char_bit < 256), from the state st of char_bit,
\* video_offset and the memset calls made so far.
DrawBits(ch, char_row, bytes_per_pixel, st) ==
  IF st.char_bit < 256
  THEN DrawBits(ch, char_row, bytes_per_pixel,
                [char_bit |-> st.char_bit * 2,
                 video_offset |-> PtrAdd(st.video_offset, U32(0), bytes_per_pixel),
                 ms |-> Append(st.ms,
                          [carry |-> st.video_offset.carry,
                           off |-> st.video_offset.low,
                           val |-> IF BitAnd(font8x8_basic(ch, char_row), st.char_bit) # 0
                                   THEN 255 ELSE 0,
                           len |-> bytes_per_pixel])])
  ELSE st

RECURSIVE DrawRows(_, _, _, _)
\* The outer loop, for (char_row = 0; char_row < FONT_HEIGHT; char_row++),
\* from the state st of char_row, video_offset and the memset calls so far.
DrawRows(ch, bytes_per_pixel, line_length, st) ==
  IF st.char_row < FONT_HEIGHT
  THEN LET r == DrawBits(ch, st.char_row, bytes_per_pixel,
                         [char_bit |-> 1, video_offset |-> st.video_offset,
                          ms |-> st.ms])
       IN  DrawRows(ch, bytes_per_pixel, line_length,
                    [char_row |-> st.char_row + 1,
                     video_offset |->
                       PtrAdd(r.video_offset,
                              U32(line_length - FONT_WIDTH * bytes_per_pixel), 0),
                     ms |-> r.ms])
  ELSE st.ms

\* draw_char(clock, x, y, ch) for a device with the given finfo and vinfo.
draw_char(fi, vi, x_, y_, ch) ==
  LET bytes_per_pixel == vi.bits_per_pixel \div 8
      video_offset == PtrAdd(U32(0), MulU32(U32(y_), fi.line_length),
                             x_ * bytes_per_pixel)
  IN  DrawRows(ch, bytes_per_pixel, fi.line_length,
               [char_row |-> 0, video_offset |-> video_offset, ms |-> << >>])

\* An eraser that stops one row short: memset of (FONT_HEIGHT - 1) rows.
clear_time_SevenRows(fi, y_) ==
  LET video_offset == PtrAdd(U32(0), MulU32(U32(y_), fi.line_length), 0)
  IN  << [carry |-> video_offset.carry, off |-> video_offset.low, val |-> 0,
          len |-> ToInt32(U32((FONT_HEIGHT - 1) * fi.line_length))] >>

\* clear_time(clock, y)
clear_time(fi, y_) ==
  LET video_offset == PtrAdd(U32(0), MulU32(U32(y_), fi.line_length), 0)
  IN  << [carry |-> video_offset.carry, off |-> video_offset.low, val |-> 0,
          len |-> ToInt32(U32(FONT_HEIGHT * fi.line_length))] >>

\* The lowest and the highest byte offset a sequence of memset calls
\* writes (of their low parts), and whether any of them has a carry.
RECURSIVE ExtentFrom(_, _)
ExtentFrom(ms, st) ==
  IF st.k > Len(ms) THEN [lo |-> st.lo, hi |-> st.hi, carry |-> st.carry]
  ELSE LET m == ms[st.k]
       IN  ExtentFrom(ms,
             [k |-> st.k + 1,
              lo |-> IF m.off < st.lo THEN m.off ELSE st.lo,
              hi |-> IF m.off + m.len - 1 > st.hi THEN m.off + m.len - 1 ELSE st.hi,
              carry |-> IF m.carry # 0 THEN 1 ELSE st.carry])

Extent(ms) ==
  ExtentFrom(ms, [k |-> 2, lo |-> ms[1].off, hi |-> ms[1].off + ms[1].len - 1,
                  carry |-> IF ms[1].carry # 0 THEN 1 ELSE 0])

\* The extent of two writes together.
Join(e, f) ==
  [lo |-> IF f.lo < e.lo THEN f.lo ELSE e.lo,
   hi |-> IF f.hi > e.hi THEN f.hi ELSE e.hi,
   carry |-> IF f.carry # 0 THEN 1 ELSE e.carry]

(***************************************************************************)
(* The framebuffer devices the program is started on: what                 *)
(* FBIOGET_FSCREENINFO and FBIOGET_VSCREENINFO report.  Each has           *)
(* line_length >= xres * bytes per pixel and smem_len >= yres *            *)
(* line_length; the first has padded rows, the second is narrower than     *)
(* the text, the third lower than the strip.                               *)
(***************************************************************************)
Devices ==
  { [bits_per_pixel |-> 32, xres |-> 320, yres |-> 12,
     line_length |-> 1344, smem_len |-> 16128],
    [bits_per_pixel |-> 16, xres |-> 64, yres |-> 16,
     line_length |-> 128, smem_len |-> 2048],
    [bits_per_pixel |-> 24, xres |-> 320, yres |-> 8,
     line_length |-> 960, smem_len |-> 7680] }

VARIABLES
  dev,          \* the device behind clock->fbdev
  pc,           \* where the process is
  exit_status,  \* status the process ended with (-1 while it runs)
  capacity,     \* clock->capacity != NULL
  file,         \* clock->file: "none", "open" or "closed"
  finfo,        \* clock->finfo
  vinfo,        \* clock->vinfo
  video,        \* clock->video: "none", "mapped" or "unmapped"
  g_running,    \* the shutdown flag
  handler,      \* handle_signal is installed for SIGINT
  x, dx, y, i,  \* locals of run_clock
  text,         \* char text[MAX_TEXT_LEN], up to its terminator
  forked,       \* fork() has succeeded; the process is the child
  calls,        \* number of calls made of open, ioctl, mmap, munmap, close(file)
  signals,      \* SIGINT deliveries handled by handle_signal
  failed,       \* the startup operation that failed, or "none"
  tick,         \* what the current tick has read and done so far
  lastop,       \* the last write to the mapping: its kind and extent
  fb,           \* the bytes of the mapping, by offset (SpecRaster only)
  ms            \* the memset calls of the last raster call (SpecRaster only)

vars == << dev, pc, exit_status, capacity, file, finfo, vinfo, video, g_running,
           handler, x, dx, y, i, text, forked, calls, signals, failed, tick, lastop,
           fb, ms >>

\* The process specification records the extent of every write in lastop
\* and leaves the bytes themselves out: fb and ms stay empty there.
raster == << fb, ms >>

startup == << dev, capacity, file, finfo, vinfo, video, forked, failed >>
locals == << x, dx, y, i, text >>

NoTick ==
  [begun |-> FALSE, resolved |-> FALSE, stamp |-> << >>,
   rd |-> [opened |-> FALSE, content |-> << >>], n |-> 0,
   cleared |-> FALSE, drawn |-> << >>, advanced |-> FALSE, x0 |-> 0]

NoOp == [kind |-> "none", lo |-> 0, hi |-> 0, carry |-> 0]

Init ==
  /\ dev \in Devices
  /\ pc = "get_arguments"
  /\ exit_status = -1
  /\ capacity = FALSE
  /\ file = "none"
  /\ finfo = [line_length |-> 0, smem_len |-> 0]
  /\ vinfo = [xres |-> 0, yres |-> 0, bits_per_pixel |-> 0]
  /\ video = "none"
  /\ g_running = 1
  /\ handler = FALSE
  /\ x = 0 /\ dx = 0 /\ y = 0 /\ i = 0
  /\ text = << >>
  /\ forked = FALSE
  /\ calls = [open |-> 0, fscreeninfo |-> 0, vscreeninfo |-> 0, mmap |-> 0,
              munmap |-> 0, close |-> 0]
  /\ signals = 0
  /\ failed = "none"
  /\ tick = NoTick
  /\ lastop = NoOp
  /\ fb = << >>
  /\ ms = << >>

Ended == pc \in {"exited", "killed", "crashed"}

\* return status from main
Exit(status) == pc' = "exited" /\ exit_status' = status

(***************************************************************************)
(* main, lines 254-287: startup.                                           *)
(***************************************************************************)
\* get_arguments: getopt accepts the arguments, with or without -b PATH,
\* or meets an unknown option.
GetArguments ==
  /\ UNCHANGED raster
  /\ pc = "get_arguments"
  /\ \/ /\ \E b \in BOOLEAN : capacity' = b
        /\ pc' = "open"
        /\ UNCHANGED << exit_status, failed >>
     \/ /\ Exit(1)
        /\ failed' = "get_arguments"
        /\ UNCHANGED capacity
  /\ UNCHANGED << dev, file, finfo, vinfo, video, g_running, handler, locals,
                  forked, calls, signals, tick, lastop >>

\* map_framebuffer: open(clock->fbdev, O_RDWR | O_NONBLOCK)
Open ==
  /\ UNCHANGED raster
  /\ pc = "open"
  /\ calls' = [calls EXCEPT !.open = @ + 1]
  /\ \/ /\ file' = "open"
        /\ pc' = "fscreeninfo"
        /\ UNCHANGED << exit_status, failed >>
     \/ /\ Exit(1)
        /\ failed' = "open"
        /\ UNCHANGED file
  /\ UNCHANGED << dev, capacity, finfo, vinfo, video, g_running, handler, locals,
                  forked, signals, tick, lastop >>

\* get_framebuffer_info: ioctl(FBIOGET_FSCREENINFO)
Fscreeninfo ==
  /\ UNCHANGED raster
  /\ pc = "fscreeninfo"
  /\ calls' = [calls EXCEPT !.fscreeninfo = @ + 1]
  /\ \/ /\ finfo' = [line_length |-> dev.line_length, smem_len |-> dev.smem_len]
        /\ pc' = "vscreeninfo"
        /\ UNCHANGED << exit_status, failed >>
     \/ /\ Exit(1)
        /\ failed' = "fscreeninfo"
        /\ UNCHANGED finfo
  /\ UNCHANGED << dev, capacity, file, vinfo, video, g_running, handler, locals,
                  forked, signals, tick, lastop >>

\* get_framebuffer_info: ioctl(FBIOGET_VSCREENINFO)
Vscreeninfo ==
  /\ UNCHANGED raster
  /\ pc = "vscreeninfo"
  /\ calls' = [calls EXCEPT !.vscreeninfo = @ + 1]
  /\ \/ /\ vinfo' = [xres |-> dev.xres, yres |-> dev.yres,
                     bits_per_pixel |-> dev.bits_per_pixel]
        /\ pc' = "mmap"
        /\ UNCHANGED << exit_status, failed >>
     \/ /\ Exit(1)
        /\ failed' = "vscreeninfo"
        /\ UNCHANGED vinfo
  /\ UNCHANGED << dev, capacity, file, finfo, video, g_running, handler, locals,
                  forked, signals, tick, lastop >>

\* main going on to fork() whatever map_framebuffer returned.
Mmap_StatusIgnored ==
  /\ UNCHANGED raster
  /\ pc = "mmap"
  /\ \/ /\ video' = "mapped"
        /\ calls' = [calls EXCEPT !.mmap = @ + 1]
        /\ UNCHANGED << failed, file >>
     \/ /\ calls' = [calls EXCEPT !.mmap = @ + 1, !.close = @ + 1]
        /\ file' = "closed"
        /\ failed' = "mmap"
        /\ UNCHANGED video
  /\ pc' = "fork"
  /\ UNCHANGED << dev, capacity, finfo, vinfo, g_running, handler, locals,
                  forked, signals, tick, lastop, exit_status >>

\* map_framebuffer returning 1 on MAP_FAILED without close(clock->file).
Mmap_FailureLeavesOpen ==
  /\ UNCHANGED raster
  /\ pc = "mmap"
  /\ calls' = [calls EXCEPT !.mmap = @ + 1]
  /\ \/ /\ video' = "mapped"
        /\ pc' = "fork"
        /\ UNCHANGED << exit_status, failed >>
     \/ /\ Exit(1)
        /\ failed' = "mmap"
        /\ UNCHANGED video
  /\ UNCHANGED << dev, capacity, file, finfo, vinfo, g_running, handler, locals,
                  forked, signals, tick, lastop >>

\* map_framebuffer: mmap of finfo.smem_len bytes; on MAP_FAILED the
\* descriptor is closed and startup fails.
Mmap ==
  /\ UNCHANGED raster
  /\ pc = "mmap"
  /\ \/ /\ video' = "mapped"
        /\ calls' = [calls EXCEPT !.mmap = @ + 1]
        /\ pc' = "fork"
        /\ UNCHANGED << exit_status, failed, file >>
     \/ /\ calls' = [calls EXCEPT !.mmap = @ + 1, !.close = @ + 1]
        /\ file' = "closed"
        /\ Exit(1)
        /\ failed' = "mmap"
        /\ UNCHANGED video
  /\ UNCHANGED << dev, capacity, finfo, vinfo, g_running, handler, locals,
                  forked, signals, tick, lastop >>

\* fork(): on failure main returns 1; the parent returns 0 and the model
\* goes on as the child.
Fork ==
  /\ UNCHANGED raster
  /\ pc = "fork"
  /\ \/ /\ forked' = TRUE
        /\ pc' = "setsid"
        /\ UNCHANGED exit_status
     \/ /\ Exit(1)
        /\ UNCHANGED forked
  /\ UNCHANGED << dev, capacity, file, finfo, vinfo, video, g_running, handler,
                  locals, calls, signals, failed, tick, lastop >>

\* setsid(): on failure main returns 2.
Setsid ==
  /\ UNCHANGED raster
  /\ pc = "setsid"
  /\ \/ pc' = "detach" /\ UNCHANGED exit_status
     \/ Exit(2)
  /\ UNCHANGED << startup, g_running, handler, locals, calls, signals, tick, lastop >>

\* chdir("/") and the three close() calls on the standard streams.
Detach ==
  /\ UNCHANGED raster
  /\ pc = "detach"
  /\ pc' = "signal"
  /\ UNCHANGED << startup, exit_status, g_running, handler, locals, calls,
                  signals, tick, lastop >>

\* signal(SIGINT, handle_signal)
InstallHandler ==
  /\ UNCHANGED raster
  /\ pc = "signal"
  /\ handler' = TRUE
  /\ pc' = "run_clock"
  /\ UNCHANGED << startup, exit_status, g_running, locals, calls, signals, tick,
                  lastop >>

(***************************************************************************)
(* run_clock, lines 168-204.                                               *)
(***************************************************************************)
\* The strip placed one row lower: y = clock->vinfo.yres - FONT_HEIGHT - 1.
RunClockInit_OneRowLower ==
  /\ UNCHANGED raster
  /\ pc = "run_clock"
  /\ dx' = 1
  /\ x' = 5
  /\ y' = ToInt32(U32(vinfo.yres - FONT_HEIGHT - 1))
  /\ pc' = "while"
  /\ UNCHANGED << startup, exit_status, g_running, handler, i, text, calls,
                  signals, tick, lastop >>

\* Lines 173-175: dx = 1; x = 5; y = clock->vinfo.yres - FONT_HEIGHT - 2
\* (unsigned arithmetic, converted to int).
RunClockInit ==
  /\ UNCHANGED raster
  /\ pc = "run_clock"
  /\ dx' = 1
  /\ x' = 5
  /\ y' = ToInt32(U32(vinfo.yres - FONT_HEIGHT - 2))
  /\ pc' = "while"
  /\ UNCHANGED << startup, exit_status, g_running, handler, i, text, calls,
                  signals, tick, lastop >>

\* Line 177: while (g_running)
While ==
  /\ UNCHANGED raster
  /\ pc = "while"
  /\ pc' = IF g_running # 0 THEN "get_asctime" ELSE "munmap"
  /\ UNCHANGED << startup, exit_status, g_running, handler, locals, calls,
                  signals, tick, lastop >>

\* Line 178: get_asctime(text)
GetAsctime ==
  /\ UNCHANGED raster
  /\ pc = "get_asctime"
  /\ \E t \in TimeResults :
       /\ text' = get_asctime(t)
       /\ tick' = [NoTick EXCEPT !.begun = TRUE, !.resolved = Resolved(t),
                                 !.stamp = get_asctime(t), !.x0 = x]
  /\ pc' = "if_capacity"
  /\ UNCHANGED << startup, exit_status, g_running, handler, x, dx, y, i, calls,
                  signals, lastop >>

\* Lines 180-182: if (clock->capacity != NULL) add_power_level_to_text
AddPowerLevel ==
  /\ UNCHANGED raster
  /\ pc = "if_capacity"
  /\ IF capacity
     THEN \E rd \in CapacityReads :
            \E n \in (IF rd.opened THEN CapacityValues(rd.content) ELSE {0}) :
              /\ text' = add_power_level_to_text(text, rd, n)
              /\ tick' = [tick EXCEPT !.rd = rd, !.n = n]
     ELSE UNCHANGED << text, tick >>
  /\ pc' = "clear_time"
  /\ UNCHANGED << startup, exit_status, g_running, handler, x, dx, y, i, calls,
                  signals, lastop >>

\* A write outside [0, smem_len) is undefined: the process goes on or is
\* killed by the fault.
InBounds(ext) == ext.carry = 0 /\ ext.lo >= 0 /\ ext.hi < finfo.smem_len

AfterWrite(ext, next) ==
  \/ pc' = next
  \/ ~InBounds(ext) /\ pc' = "crashed"

\* The erase step with a test of the flag in it: if (!g_running) break.
ClearTime_BreaksOnSignal ==
  /\ UNCHANGED raster
  /\ pc = "clear_time"
  /\ i' = Len(text) - 1
  /\ \E ext \in { Extent(clear_time(finfo, y)) } :
       /\ lastop' = [kind |-> "clear_time", lo |-> ext.lo, hi |-> ext.hi,
                     carry |-> ext.carry]
       /\ AfterWrite(ext, IF g_running # 0 THEN "draw_char" ELSE "munmap")
  /\ tick' = [tick EXCEPT !.cleared = TRUE]
  /\ UNCHANGED << startup, exit_status, g_running, handler, x, dx, y, text, calls,
                  signals >>

\* Lines 184-185: i = strlen(text) - 1; clear_time(clock, y)
ClearTime ==
  /\ UNCHANGED raster
  /\ pc = "clear_time"
  /\ i' = Len(text) - 1
  /\ \E ext \in { Extent(clear_time(finfo, y)) } :
       /\ lastop' = [kind |-> "clear_time", lo |-> ext.lo, hi |-> ext.hi,
                     carry |-> ext.carry]
       /\ AfterWrite(ext, "draw_char")
  /\ tick' = [tick EXCEPT !.cleared = TRUE]
  /\ UNCHANGED << startup, exit_status, g_running, handler, x, dx, y, text, calls,
                  signals >>

RECURSIVE DrawLoop_SkipsFirst(_, _, _, _, _)
\* The drawing loop with the test while (i > 0): text[0] is never drawn.
DrawLoop_SkipsFirst(fi, vi, x_, y_, st) ==
  IF st.i > 0
  THEN LET p == x_ + st.i * FONT_WIDTH
           ch == text[st.i + 1]
           e == Extent(draw_char(fi, vi, p, y_, ch))
       IN  DrawLoop_SkipsFirst(fi, vi, x_, y_,
                    [i |-> st.i - 1,
                     drawn |-> Append(st.drawn, [i |-> st.i, p |-> p, ch |-> ch]),
                     ext |-> IF st.drawn = << >> THEN e ELSE Join(st.ext, e)])
  ELSE st

RECURSIVE DrawLoop(_, _, _, _, _)
\* Lines 187-191: while (i >= 0) { draw_char(clock, x + i * FONT_WIDTH, y,
\* text[i]); i--; } from the state st: i, the draw_char calls made so far
\* and the extent of their writes (ext, meaningful once a call was made).
DrawLoop(fi, vi, x_, y_, st) ==
  IF st.i >= 0
  THEN LET p == x_ + st.i * FONT_WIDTH
           ch == text[st.i + 1]
           e == Extent(draw_char(fi, vi, p, y_, ch))
       IN  DrawLoop(fi, vi, x_, y_,
                    [i |-> st.i - 1,
                     drawn |-> Append(st.drawn, [i |-> st.i, p |-> p, ch |-> ch]),
                     ext |-> IF st.drawn = << >> THEN e ELSE Join(st.ext, e)])
  ELSE st

DrawText ==
  /\ UNCHANGED raster
  /\ pc = "draw_char"
  /\ \E r \in { DrawLoop(finfo, vinfo, x, y,
                         [i |-> i, drawn |-> << >>,
                          ext |-> [lo |-> 0, hi |-> 0, carry |-> 0]]) } :
       /\ i' = r.i
       /\ tick' = [tick EXCEPT !.drawn = r.drawn]
       /\ IF r.drawn = << >>
          THEN pc' = "advance" /\ UNCHANGED lastop
          ELSE /\ lastop' = [kind |-> "draw_char", lo |-> r.ext.lo, hi |-> r.ext.hi,
                             carry |-> r.ext.carry]
               /\ AfterWrite(r.ext, "advance")
  /\ UNCHANGED << startup, exit_status, g_running, handler, x, dx, y, text, calls,
                  signals >>

\* The bounce test with the upper bound off by one: if (x > 21 || x < 6).
Advance_UpperOffByOne ==
  /\ UNCHANGED raster
  /\ pc = "advance"
  /\ x' = x + dx
  /\ dx' = IF x + dx > 21 \/ x + dx < 6 THEN -dx ELSE dx
  /\ tick' = [tick EXCEPT !.advanced = TRUE]
  /\ pc' = "sleep"
  /\ UNCHANGED << startup, exit_status, g_running, handler, y, i, text, calls,
                  signals, lastop >>

\* The bounce test made before the step: if (x > 20 || x < 6) dx = -dx;
\* x += dx with the old dx.
Advance_TestsBeforeStep ==
  /\ UNCHANGED raster
  /\ pc = "advance"
  /\ x' = x + dx
  /\ dx' = IF x > 20 \/ x < 6 THEN -dx ELSE dx
  /\ tick' = [tick EXCEPT !.advanced = TRUE]
  /\ pc' = "sleep"
  /\ UNCHANGED << startup, exit_status, g_running, handler, y, i, text, calls,
                  signals, lastop >>

\* A step that is not taken when it would cross a bound: x stays where it
\* is for one tick and dx is negated.
Advance_Stalls ==
  /\ UNCHANGED raster
  /\ pc = "advance"
  /\ x' = IF x + dx > 20 \/ x + dx < 6 THEN x ELSE x + dx
  /\ dx' = IF x + dx > 20 \/ x + dx < 6 THEN -dx ELSE dx
  /\ tick' = [tick EXCEPT !.advanced = TRUE]
  /\ pc' = "sleep"
  /\ UNCHANGED << startup, exit_status, g_running, handler, y, i, text, calls,
                  signals, lastop >>

\* Lines 193-197: x += dx; if (x > 20 || x < 6) dx = -dx
Advance ==
  /\ UNCHANGED raster
  /\ pc = "advance"
  /\ x' = x + dx
  /\ dx' = IF x + dx > 20 \/ x + dx < 6 THEN -dx ELSE dx
  /\ tick' = [tick EXCEPT !.advanced = TRUE]
  /\ pc' = "sleep"
  /\ UNCHANGED << startup, exit_status, g_running, handler, y, i, text, calls,
                  signals, lastop >>

\* Line 199: sleep(1)
Sleep ==
  /\ UNCHANGED raster
  /\ pc = "sleep"
  /\ pc' = "while"
  /\ UNCHANGED << startup, exit_status, g_running, handler, locals, calls,
                  signals, tick, lastop >>

\* Line 202: munmap(clock->video, clock->finfo.smem_len)
Munmap ==
  /\ UNCHANGED raster
  /\ pc = "munmap"
  /\ video' = "unmapped"
  /\ calls' = [calls EXCEPT !.munmap = @ + 1]
  /\ pc' = "close"
  /\ UNCHANGED << dev, capacity, file, finfo, vinfo, forked, failed, exit_status,
                  g_running, handler, locals, signals, tick, lastop >>

\* Line 203: close(clock->file)
Close ==
  /\ UNCHANGED raster
  /\ pc = "close"
  /\ file' = "closed"
  /\ calls' = [calls EXCEPT !.close = @ + 1]
  /\ pc' = "return"
  /\ UNCHANGED << dev, capacity, video, finfo, vinfo, forked, failed, exit_status,
                  g_running, handler, locals, signals, tick, lastop >>

\* Line 290: return 0
Return ==
  /\ UNCHANGED raster
  /\ pc = "return"
  /\ Exit(0)
  /\ UNCHANGED << startup, g_running, handler, locals, calls, signals, tick, lastop >>

(***************************************************************************)
(* SIGINT.                                                                 *)
(***************************************************************************)
\* A handler that releases the mapping and the descriptor itself.
HandleSignal_Releases ==
  /\ UNCHANGED raster
  /\ handler
  /\ ~Ended
  /\ signals < MaxSignals
  /\ g_running' = 0
  /\ signals' = signals + 1
  /\ video' = "unmapped"
  /\ file' = "closed"
  /\ calls' = [calls EXCEPT !.munmap = @ + 1, !.close = @ + 1]
  /\ UNCHANGED << dev, capacity, finfo, vinfo, forked, failed, pc, exit_status,
                  handler, locals, tick, lastop >>

\* A handler that unmaps the framebuffer at once.
HandleSignal_Unmaps ==
  /\ UNCHANGED raster
  /\ handler
  /\ ~Ended
  /\ signals < MaxSignals
  /\ g_running' = 0
  /\ signals' = signals + 1
  /\ video' = "unmapped"
  /\ calls' = [calls EXCEPT !.munmap = @ + 1]
  /\ UNCHANGED << dev, capacity, file, finfo, vinfo, forked, failed, pc, exit_status,
                  handler, locals, tick, lastop >>

\* handle_signal, lines 206-209, run on a SIGINT once it is installed.
HandleSignal ==
  /\ UNCHANGED raster
  /\ handler
  /\ ~Ended
  /\ signals < MaxSignals
  /\ g_running' = 0
  /\ signals' = signals + 1
  /\ UNCHANGED << startup, pc, exit_status, handler, locals, calls, tick, lastop >>

\* A SIGINT before signal() is called has its default action.
DefaultSigint ==
  /\ UNCHANGED raster
  /\ ~handler
  /\ ~Ended
  /\ pc' = "killed"
  /\ UNCHANGED << startup, exit_status, g_running, handler, locals, calls,
                  signals, tick, lastop >>

Next ==
  \/ GetArguments \/ Open \/ Fscreeninfo \/ Vscreeninfo \/ Mmap \/ Fork
  \/ Setsid \/ Detach \/ InstallHandler \/ RunClockInit \/ While
  \/ GetAsctime \/ AddPowerLevel \/ ClearTime \/ DrawText \/ Advance \/ Sleep
  \/ Munmap \/ Close \/ Return
  \/ HandleSignal \/ DefaultSigint

Spec == Init /\ [][Next]_vars

(***************************************************************************)
(* The raster operations on their own (specification SpecRaster): one      *)
(* call of draw_char on a mapped device, at a position where the glyph     *)
(* lies inside the screen, and calls of clear_time on a strip inside the   *)
(* screen, with the bytes of the mapping kept in fb.                       *)
(***************************************************************************)
\* memset(video + m.off, m.val, m.len) on the bytes buf.
\* A call whose offset has a carry writes 2^32 bytes or more past the start
\* of the mapping: none of the mapping's bytes.
Memset(buf, m) ==
  [o \in DOMAIN buf |->
     IF m.carry = 0 /\ o >= m.off /\ o < m.off + m.len THEN m.val ELSE buf[o]]

RECURSIVE MemsetsFrom(_, _)
MemsetsFrom(calls_, st) ==
  IF st.k > Len(calls_) THEN st.buf
  ELSE MemsetsFrom(calls_, [k |-> st.k + 1, buf |-> Memset(st.buf, calls_[st.k])])

\* The bytes after the memset calls calls_, made in order.
Memsets(buf, calls_) == MemsetsFrom(calls_, [k |-> 1, buf |-> buf])

\* Devices of 10 by 10 pixels in each supported depth, with rows of
\* exactly 10 pixels and with rows padded by 3 bytes.
RasterDevices ==
  { [bits_per_pixel |-> b, xres |-> 10, yres |-> 10,
     line_length |-> 10 * (b \div 8) + pad,
     smem_len |-> 10 * (10 * (b \div 8) + pad)] : b \in {8, 16, 24, 32}, pad \in {0, 3} }

RasterXs == {0, 2}
RasterYs == {0, 2}

\* The characters drawn: space, '1', 'A' and '~'.
RasterChars == {32, 49, 65, 126}

\* The byte at offset o of the mapping before the call: neither 0x00 nor
\* 0xFF.
Background(o) == 1 + (o % 254)

InitRaster ==
  /\ dev \in RasterDevices
  /\ pc = "raster"
  /\ exit_status = -1
  /\ capacity = FALSE
  /\ file = "open"
  /\ finfo = [line_length |-> dev.line_length, smem_len |-> dev.smem_len]
  /\ vinfo = [xres |-> dev.xres, yres |-> dev.yres,
              bits_per_pixel |-> dev.bits_per_pixel]
  /\ video = "mapped"
  /\ g_running = 1
  /\ handler = FALSE
  /\ x = 0 /\ dx = 0 /\ y = 0 /\ i = 0
  /\ text = << >>
  /\ forked = FALSE
  /\ calls = [open |-> 1, fscreeninfo |-> 1, vscreeninfo |-> 1, mmap |-> 1,
              munmap |-> 0, close |-> 0]
  /\ signals = 0
  /\ failed = "none"
  /\ tick = NoTick
  /\ lastop = NoOp
  /\ fb = [o \in 0..(dev.smem_len - 1) |-> Background(o)]
  /\ ms = << >>

\* draw_char(clock, px, py, ch)
DrawCall ==
  /\ pc = "raster"
  /\ \E px \in RasterXs, py \in RasterYs, ch \in RasterChars :
       /\ x' = px /\ y' = py /\ text' = << ch >>
       /\ \E made \in { draw_char(finfo, vinfo, px, py, ch) } :
            /\ ms' = made
            /\ fb' = Memsets(fb, made)
            /\ \E ext \in { Extent(made) } :
                 lastop' = [kind |-> "draw_char", lo |-> ext.lo, hi |-> ext.hi,
                            carry |-> ext.carry]
  /\ pc' = "drawn"
  /\ UNCHANGED << startup, exit_status, g_running, handler, dx, i, calls, signals,
                  tick >>

\* clear_time(clock, py), on the mapping as it was mapped or after a
\* draw_char; then once more with the same y.
ClearCall ==
  /\ pc \in {"raster", "drawn", "cleared"}
  /\ \E py \in (IF pc = "cleared" THEN {y} ELSE RasterYs) :
       /\ y' = py
       /\ \E made \in { clear_time(finfo, py) } :
            /\ ms' = made
            /\ fb' = Memsets(fb, made)
            /\ \E ext \in { Extent(made) } :
                 lastop' = [kind |-> "clear_time", lo |-> ext.lo, hi |-> ext.hi,
                            carry |-> ext.carry]
  /\ pc' = IF pc = "cleared" THEN "cleared_twice" ELSE "cleared"
  /\ UNCHANGED << startup, exit_status, g_running, handler, x, dx, i, text, calls,
                  signals, tick >>

NextRaster == DrawCall \/ ClearCall

SpecRaster == InitRaster /\ [][NextRaster]_vars

(***************************************************************************)
(* The render loop with the bytes of the mapping kept in fb (specification *)
(* SpecStrip): run_clock from its entry, on small devices, with no signal. *)
(* The text that lines 178-182 compose is an input of each tick, drawn     *)
(* from a few short strings, so that a row of a small device holds it.     *)
(***************************************************************************)
\* Devices of 12 rows with rows of 48 pixels, unpadded at 8 bits per pixel
\* and padded by 3 bytes at 16; one with rows of 40 pixels, too short for
\* the longest text at the higher offsets; one of 8 rows, lower than the
\* strip.
StripDevices ==
  { [bits_per_pixel |-> 8, xres |-> 48, yres |-> 12,
     line_length |-> 48, smem_len |-> 576],
    [bits_per_pixel |-> 16, xres |-> 48, yres |-> 12,
     line_length |-> 99, smem_len |-> 1188],
    [bits_per_pixel |-> 8, xres |-> 40, yres |-> 12,
     line_length |-> 40, smem_len |-> 480],
    [bits_per_pixel |-> 8, xres |-> 48, yres |-> 8,
     line_length |-> 48, smem_len |-> 384] }

\* The texts of the ticks: "A" and "1\n~".
StripTexts == { << 65 >>, << 49, 10, 126 >> }

InitStrip ==
  /\ dev \in StripDevices
  /\ pc = "run_clock"
  /\ exit_status = -1
  /\ capacity = FALSE
  /\ file = "open"
  /\ finfo = [line_length |-> dev.line_length, smem_len |-> dev.smem_len]
  /\ vinfo = [xres |-> dev.xres, yres |-> dev.yres,
              bits_per_pixel |-> dev.bits_per_pixel]
  /\ video = "mapped"
  /\ g_running = 1
  /\ handler = TRUE
  /\ x = 0 /\ dx = 0 /\ y = 0 /\ i = 0
  /\ text = << >>
  /\ forked = TRUE
  /\ calls = [open |-> 1, fscreeninfo |-> 1, vscreeninfo |-> 1, mmap |-> 1,
              munmap |-> 0, close |-> 0]
  /\ signals = 0
  /\ failed = "none"
  /\ tick = NoTick
  /\ lastop = NoOp
  /\ fb = [o \in 0..(dev.smem_len - 1) |-> Background(o)]
  /\ ms = << >>

\* Lines 178-182, with the text they leave as an input.
ComposeText ==
  /\ UNCHANGED raster
  /\ pc = "get_asctime"
  /\ \E t \in StripTexts :
       /\ text' = t
       /\ tick' = [NoTick EXCEPT !.begun = TRUE, !.resolved = TRUE, !.stamp = t,
                                 !.x0 = x]
  /\ pc' = "clear_time"
  /\ UNCHANGED << startup, exit_status, g_running, handler, x, dx, y, i, calls,
                  signals, lastop >>

\* Lines 184-185, with the bytes the memset writes.
ClearTimeRaster ==
  /\ pc = "clear_time"
  /\ i' = Len(text) - 1
  /\ \E made \in { clear_time(finfo, y) } :
       /\ fb' = Memsets(fb, made)
       /\ \E ext \in { Extent(made) } :
            /\ lastop' = [kind |-> "clear_time", lo |-> ext.lo, hi |-> ext.hi,
                          carry |-> ext.carry]
            /\ AfterWrite(ext, "draw_char")
  /\ tick' = [tick EXCEPT !.cleared = TRUE]
  /\ UNCHANGED << startup, exit_status, g_running, handler, x, dx, y, text, calls,
                  signals, ms >>

RECURSIVE DrawLoopRaster(_, _, _, _, _)
\* Lines 187-191 on the bytes of the mapping, from the state st: i and the
\* bytes after the draw_char calls made so far.
DrawLoopRaster(fi, vi, x_, y_, st) ==
  IF st.i >= 0
  THEN DrawLoopRaster(fi, vi, x_, y_,
         [i |-> st.i - 1,
          buf |-> Memsets(st.buf,
                          draw_char(fi, vi, x_ + st.i * FONT_WIDTH, y_, text[st.i + 1]))])
  ELSE st

\* Lines 187-191, with the bytes the draw_char calls write.
DrawTextRaster ==
  /\ pc = "draw_char"
  /\ \E r \in { DrawLoop(finfo, vinfo, x, y,
                         [i |-> i, drawn |-> << >>,
                          ext |-> [lo |-> 0, hi |-> 0, carry |-> 0]]) } :
       /\ i' = r.i
       /\ tick' = [tick EXCEPT !.drawn = r.drawn]
       /\ IF r.drawn = << >>
          THEN pc' = "advance" /\ UNCHANGED lastop
          ELSE /\ lastop' = [kind |-> "draw_char", lo |-> r.ext.lo, hi |-> r.ext.hi,
                             carry |-> r.ext.carry]
               /\ AfterWrite(r.ext, "advance")
  /\ \E q \in { DrawLoopRaster(finfo, vinfo, x, y, [i |-> i, buf |-> fb]) } :
       fb' = q.buf
  /\ UNCHANGED << startup, exit_status, g_running, handler, x, dx, y, text, calls,
                  signals, ms >>

NextStrip ==
  \/ RunClockInit \/ While \/ ComposeText \/ ClearTimeRaster \/ DrawTextRaster
  \/ Advance \/ Sleep

SpecStrip == InitStrip /\ [][NextStrip]_vars

(***************************************************************************)
(* Properties of the process (specification Spec).                         *)
(***************************************************************************)
InRunClock ==
  pc \in {"run_clock", "while", "get_asctime", "if_capacity", "clear_time",
          "draw_char", "advance", "sleep"}

\* The text of the tick is composed: add_power_level_to_text is past.
Composed == tick.begun /\ pc \in {"clear_time", "draw_char", "advance", "sleep"}

\* The tick has done its whole sequence: erased the strip, drawn every
\* character of the text from the last to the first, advanced x.
TickComplete ==
  /\ tick.cleared
  /\ Len(tick.drawn) = Len(text)
  /\ \A k \in 1..Len(text) :
       /\ tick.drawn[k].i = Len(text) - k
       /\ tick.drawn[k].ch = text[Len(text) - k + 1]
  /\ tick.advanced

Released == video = "unmapped" /\ file = "closed"

\* C1: once run_clock is entered the mapping is unmapped and the descriptor
\* closed at most once each, never while the loop runs, the close right
\* after the munmap, and both exactly once when run_clock has returned,
\* whatever the number of signals.
C1_ReleasedOnceAfterLoop ==
  /\ calls.munmap <= 1 /\ calls.close <= 1
  /\ InRunClock => calls.munmap = 0 /\ calls.close = 0 /\ video = "mapped" /\ file = "open"
  /\ pc = "crashed" => calls.munmap = 0 /\ calls.close = 0
  /\ calls.munmap = 1 /\ calls.close = 0 => pc = "close"
  /\ calls.close = 1 /\ calls.munmap = 0 => failed = "mmap"
  /\ pc = "return" \/ (pc = "exited" /\ exit_status = 0)
       => calls.munmap = 1 /\ calls.close = 1 /\ Released

C1_Witness ==
  /\ pc = "exited" /\ exit_status = 0
  /\ tick.begun /\ signals = 2
  /\ calls.munmap = 1 /\ calls.close = 1

\* The geometry the claim C2 assumes.
GeometryOk ==
  /\ vinfo.bits_per_pixel \in {8, 16, 24, 32}
  /\ finfo.line_length >= vinfo.xres * (vinfo.bits_per_pixel \div 8)
  /\ finfo.smem_len >= vinfo.yres * finfo.line_length

\* C2: with such a geometry y is never negative and every byte clear_time
\* and draw_char write lies in [0, smem_len).
C2_WritesInBounds ==
  GeometryOk =>
    /\ pc \in {"while", "get_asctime", "if_capacity", "clear_time", "draw_char",
               "advance", "sleep"} => y >= 0
    /\ lastop.kind # "none" =>
         lastop.carry = 0 /\ lastop.lo >= 0 /\ lastop.hi < finfo.smem_len

\* C3 as stated: the loop starts with x = 5 and dx = 1 and after every tick
\* x is within [6, 20].
C3_DriftWithin6To20 ==
  /\ pc = "while" /\ ~tick.begun => x = 5 /\ dx = 1
  /\ tick.advanced => x >= 6 /\ x <= 20

\* C3 as amended: the loop starts with x = 5 and dx = 1 and after every
\* tick x is within [5, 21].
C3_DriftWithin5To21 ==
  /\ pc = "while" /\ ~tick.begun => x = 5 /\ dx = 1
  /\ tick.advanced => x >= 5 /\ x <= 21

C3_Witness == tick.advanced /\ x = 21 /\ dx = -1

\* C4: the loop leaves for the release only from the test at its top, with
\* the flag down and the tick before it complete; a signal handled during
\* a tick does not move the process.
C4_NoExitMidTick ==
  [][ /\ pc # "munmap" /\ pc' = "munmap" =>
           pc = "while" /\ g_running = 0 /\ (tick.begun => TickComplete)
      /\ g_running' # g_running => pc' = pc /\ tick' = tick /\ locals' = locals
    ]_vars

\* A signal is in while a tick is at its drawing step; the tick has erased
\* the strip.
C4_Witness == pc = "draw_char" /\ g_running = 0 /\ tick.cleared /\ tick.drawn = << >>

\* C5, its last part: once a signal is handled the process goes on until
\* the mapping is released and the device closed; it does not end before
\* that.
C5_OneSignalTerminates ==
  handler /\ g_running = 0 /\ Ended => Released

\* C5, its first parts: once a signal is handled the flag stays 0 and no
\* later tick begins.
C5_FlagStaysDown ==
  /\ [][g_running = 0 => g_running' = 0]_vars
  /\ [][g_running = 0 /\ pc = "while" => pc' # "get_asctime"]_vars

\* C6: a failed startup operation ends the process with a non-zero status
\* before fork(), after one attempt at each operation, with no tick begun
\* and nothing written.
C6_StartupFailureFatal ==
  /\ calls.open <= 1 /\ calls.fscreeninfo <= 1 /\ calls.vscreeninfo <= 1
  /\ calls.mmap <= 1
  /\ failed # "none" =>
       /\ pc = "exited" /\ exit_status # 0
       /\ ~forked /\ ~handler
       /\ ~tick.begun /\ lastop.kind = "none"
       /\ video = "none"

C6_Witness == failed = "mmap" /\ pc = "exited" /\ exit_status = 1 /\ calls.mmap = 1

\* The suffix add_power_level_to_text has appended in this tick.
SuffixOfTick ==
  IF capacity /\ tick.rd.opened THEN PowerSuffix(tick.n) ELSE << >>

\* C7 as stated: in a tick whose time is not resolved the composed text is
\* the placeholder.
C7_ComposedIsPlaceholder ==
  Composed /\ ~tick.resolved => text = ErrorGettingTime

\* C7 as amended: in a tick whose time is not resolved get_asctime leaves
\* the placeholder, the composed text is the placeholder followed by the
\* suffix of the tick if there is one, and the tick goes on: what it
\* erases, draws and advances is as in any tick.
C7_PlaceholderThenSuffix ==
  tick.begun /\ ~tick.resolved =>
    /\ tick.stamp = ErrorGettingTime
    /\ pc = "if_capacity" => text = ErrorGettingTime
    /\ Composed => text = ErrorGettingTime \o SuffixOfTick
    /\ pc \in {"get_asctime", "if_capacity", "clear_time", "draw_char", "advance",
              "sleep", "while", "crashed"} \/ TickComplete
    /\ pc \in {"draw_char", "advance", "sleep"} => tick.cleared
    /\ pc \in {"advance", "sleep"} => Len(tick.drawn) = Len(text)
    /\ pc \in {"sleep", "while"} => TickComplete /\ (x = tick.x0 + 1 \/ x = tick.x0 - 1)

C7_Witness ==
  /\ pc = "sleep" /\ tick.begun /\ ~tick.resolved
  /\ text = ErrorGettingTime /\ TickComplete

\* A capacity file from which a line can be read.
Readable(rd) == rd.opened /\ rd.content # << >>

\* C8 as stated: the composed text is the timestamp followed by "- N%",
\* N the integer in the capacity file, if a capacity source is configured
\* and readable in the tick, and the timestamp alone otherwise.
C8_SuffixIffReadable ==
  Composed =>
    text = tick.stamp \o (IF capacity /\ Readable(tick.rd)
                          THEN PowerSuffix(Atoi(tick.rd.content)) ELSE << >>)

\* C9: the composed text has at most MAX_TEXT_LEN - 1 characters.
C9_TextFits == Len(text) <= MAX_TEXT_LEN - 1 /\ Len(tick.stamp) <= MAX_TEXT_LEN - 1

C9_Witness == Composed /\ capacity /\ tick.rd.opened /\ Len(text) > Len(tick.stamp)

\* The characters the tick has passed to draw_char so far.
DrawnCodes == { tick.drawn[k].ch : k \in 1..Len(tick.drawn) }

\* C11: every character code passed to draw_char is a printable ASCII
\* code, 32 to 126.
C11_OnlyPrintableDrawn == \A ch \in DrawnCodes : ch >= 32 /\ ch <= 126

\* C11, what holds of the codes drawn: each is an index of the 128-entry
\* glyph table, and the only one that is not printable is the newline that
\* ends asctime's string, drawn as the character at index 24 of the text
\* of a tick whose time is resolved.
C11_CodesInTable ==
  \A k \in 1..Len(tick.drawn) :
    /\ tick.drawn[k].ch >= 0 /\ tick.drawn[k].ch <= 127
    /\ ~(tick.drawn[k].ch >= 32 /\ tick.drawn[k].ch <= 126) =>
         tick.drawn[k].ch = 10 /\ tick.resolved /\ tick.drawn[k].i = 24

\* The loop of run_clock is entered: dx, x and y are assigned.
InLoop ==
  pc \in {"while", "get_asctime", "if_capacity", "clear_time", "draw_char",
          "advance", "sleep", "munmap", "close", "return"}

\* C13: the step that advances x adds dx to it and negates dx if and only
\* if the new x is above 20 or below 6; no other step of the loop changes
\* x or dx; dx is 1 or -1 from the entry of the loop on.
C13_StepAndFlip ==
  /\ [][~tick.advanced /\ tick'.advanced =>
          /\ x' = x + dx
          /\ (x' > 20 \/ x' < 6) => dx' = -dx
          /\ ~(x' > 20 \/ x' < 6) => dx' = dx]_vars
  /\ [][InLoop /\ ~(~tick.advanced /\ tick'.advanced) => x' = x /\ dx' = dx]_vars
  /\ [](InLoop => dx = 1 \/ dx = -1)
  /\ [](dx \in {-1, 0, 1})

\* The tick that drew at 6 going down has stepped to 5 and turned.
C13_Witness == pc = "sleep" /\ tick.advanced /\ tick.x0 = 6 /\ x = 5 /\ dx = 1

\* C14: in a tick the strip is erased before any character is drawn; when
\* the drawing is over every index of the text has been drawn once, index
\* i at x + i * 8 for the x the tick began with; x is advanced only then
\* and the sleep entered after that; y is yres - 10 throughout the loop.
C14_TickOrder ==
  /\ tick.drawn # << >> => tick.cleared
  /\ pc = "draw_char" => tick.cleared /\ tick.drawn = << >>
  /\ pc \in {"clear_time", "draw_char", "advance"} => x = tick.x0 /\ ~tick.advanced
  /\ pc \in {"advance", "sleep"} \/ tick.advanced =>
       /\ tick.cleared
       /\ Len(tick.drawn) = Len(text)
       /\ \A k \in 0..(Len(text) - 1) :
            Cardinality({ j \in 1..Len(tick.drawn) : tick.drawn[j].i = k }) = 1
       /\ \A j \in 1..Len(tick.drawn) :
            /\ tick.drawn[j].p = tick.x0 + tick.drawn[j].i * FONT_WIDTH
            /\ tick.drawn[j].ch = text[tick.drawn[j].i + 1]
  /\ pc = "sleep" => tick.advanced
  /\ InLoop \/ pc = "crashed" => y = vinfo.yres - FONT_HEIGHT - 2

\* A tick with the battery suffix is at its sleep.
C14_Witness ==
  /\ pc = "sleep" /\ tick.advanced /\ tick.resolved
  /\ capacity /\ tick.rd.opened /\ Len(tick.drawn) = Len(text) /\ Len(text) > 25

\* C16: when a startup operation has failed munmap is never called, and
\* when it is the mmap that failed the descriptor has been closed once.
C16_NoUnmapOnFailure ==
  failed # "none" =>
    /\ calls.munmap = 0 /\ video = "none"
    /\ failed = "mmap" => calls.close = 1 /\ file = "closed"
    /\ failed # "mmap" => calls.close = 0

C16_Witness ==
  /\ failed = "mmap" /\ file = "closed" /\ calls.close = 1 /\ calls.munmap = 0
  /\ Ended

\* The place of a drawing offset in the cycle 5, 6, ..., 21, 20, ..., 6.
DriftPhase(x_, dx_) == IF dx_ = 1 THEN x_ - 5 ELSE 37 - x_

\* C17: every tick draws at an offset within [5, 21]; the step to the next
\* tick's offset is the next place of the cycle of 32 offsets that goes
\* from 5 up to 21 and back down to 5, one pixel at a time.
C17_DriftCycle ==
  /\ [](tick.begun => tick.x0 >= 5 /\ tick.x0 <= 21)
  /\ [](pc \in {"get_asctime", "if_capacity", "clear_time", "draw_char", "advance"} =>
          \/ dx = 1 /\ x >= 5 /\ x <= 20
          \/ dx = -1 /\ x >= 6 /\ x <= 21)
  /\ [](\A j \in 1..Len(tick.drawn) :
          tick.drawn[j].p - tick.drawn[j].i * FONT_WIDTH = tick.x0)
  /\ [][~tick.advanced /\ tick'.advanced =>
          /\ x = tick.x0
          /\ x' - x \in {-1, 1}
          /\ DriftPhase(x', dx') = (DriftPhase(x, dx) + 1) % 32]_vars

\* A tick is about to draw at 21, on the way down.
C17_Witness == pc = "draw_char" /\ tick.x0 = 21 /\ x = 21 /\ dx = -1

\* C19: a step that writes is taken with the mapping established and not
\* released; nothing is written before the mmap has succeeded.
C19_WritesWhileMapped ==
  /\ [][lastop' # lastop \/ tick'.cleared # tick.cleared \/ tick'.drawn # tick.drawn =>
          \/ video = "mapped" /\ video' = "mapped"
          \/ pc = "get_asctime" /\ lastop' = lastop]_vars
  /\ [](pc \in {"clear_time", "draw_char"} => video = "mapped")
  /\ [](video = "none" => lastop = NoOp /\ ~tick.begun)
  /\ [][video = "unmapped" => lastop' = lastop /\ tick' = tick]_vars

\* Ticks have drawn, a signal was handled and the mapping is released.
C19_Witness ==
  /\ video = "unmapped" /\ signals > 0
  /\ lastop.kind = "draw_char" /\ tick.advanced

(***************************************************************************)
(* Properties of the raster operations (specification SpecRaster).         *)
(***************************************************************************)
BytesPerPixel == vinfo.bits_per_pixel \div 8

\* Bit c of glyph row r of the character drawn, bit 0 the least
\* significant.
GlyphBit(r, c) == (font8x8_basic(text[1], r) \div (2 ^ c)) % 2

\* The byte offset of the pixel at glyph row r, column c.
PixelOffset(r, c) == (y + r) * finfo.line_length + (x + c) * BytesPerPixel

\* C10: draw_char writes 8 x 8 pixels of bytes_per_pixel bytes each, the
\* pixel of glyph row r, column c at byte offset (y + r) * stride +
\* (x + c) * bytes_per_pixel, all 0xFF if bit c of glyph row r is set and
\* all 0x00 if not, and writes no other byte.
C10_DrawCharPixels ==
  pc = "drawn" =>
    /\ Len(ms) = FONT_HEIGHT * FONT_WIDTH
    /\ \A r \in 0..(FONT_HEIGHT - 1), c \in 0..(FONT_WIDTH - 1) :
         /\ ms[r * FONT_WIDTH + c + 1] =
              [carry |-> 0, off |-> PixelOffset(r, c),
               val |-> IF GlyphBit(r, c) = 1 THEN 255 ELSE 0,
               len |-> BytesPerPixel]
         /\ \A b \in 0..(BytesPerPixel - 1) :
              fb[PixelOffset(r, c) + b] = IF GlyphBit(r, c) = 1 THEN 255 ELSE 0
    /\ \A o \in DOMAIN fb :
         (\A r \in 0..(FONT_HEIGHT - 1), c \in 0..(FONT_WIDTH - 1) :
            o < PixelOffset(r, c) \/ o >= PixelOffset(r, c) + BytesPerPixel)
           => fb[o] = Background(o)

\* 'A' is drawn at (2, 2) on a 24-bit device with padded rows.
C10_Witness ==
  /\ pc = "drawn" /\ text = << 65 >> /\ x = 2 /\ y = 2
  /\ vinfo.bits_per_pixel = 24 /\ finfo.line_length = 33
  /\ \E o \in DOMAIN fb : fb[o] = 255
  /\ \E o \in DOMAIN fb : fb[o] = 0

\* The strip of clear_time(y_): FONT_HEIGHT rows from row y_.
InStrip(o, y_) ==
  o >= y_ * finfo.line_length /\ o < (y_ + FONT_HEIGHT) * finfo.line_length

\* C12: clear_time(y) makes one memset of FONT_HEIGHT * stride zero bytes at
\* offset y * stride: after the call every byte of the strip is zero and
\* every other byte is as before; a second call on the same strip leaves
\* the buffer as the first call left it.
C12_ClearTimeExact ==
  [][pc' \in {"cleared", "cleared_twice"} /\ pc' # pc =>
       /\ ms' = << [carry |-> 0, off |-> y' * finfo.line_length, val |-> 0,
                    len |-> FONT_HEIGHT * finfo.line_length] >>
       /\ DOMAIN fb' = DOMAIN fb
       /\ \A o \in DOMAIN fb : fb'[o] = IF InStrip(o, y') THEN 0 ELSE fb[o]
       /\ pc' = "cleared_twice" => y' = y /\ fb' = fb
    ]_vars

\* The strip from row 2 was erased twice on a 24-bit device with padded
\* rows, after a glyph was drawn from row 0: the glyph's first two rows
\* remain.
C12_Witness ==
  /\ pc = "cleared_twice" /\ y = 2 /\ finfo.line_length = 33
  /\ \A o \in DOMAIN fb : InStrip(o, y) => fb[o] = 0
  /\ \E o \in DOMAIN fb : o < y * finfo.line_length /\ fb[o] = 255
  /\ \E o \in DOMAIN fb : o < y * finfo.line_length /\ fb[o] = Background(o)

(***************************************************************************)
(* Properties of the render loop's writes (specification SpecStrip).       *)
(***************************************************************************)
\* A text of the given length drawn from x_ ends within the row.
TextFits(x_, length) == (x_ + FONT_WIDTH * length) * BytesPerPixel <= finfo.line_length

\* Bit c of row r of the glyph of ch.
GlyphBitOf(ch, r, c) == (font8x8_basic(ch, r) \div (2 ^ c)) % 2

\* The byte at offset o of the strip from row y_ when the text t has been
\* drawn from x_ on the erased strip: the pixel it belongs to is in the
\* cell of a character, and is white or black as the glyph's bit, or it
\* is in no cell, and is zero.
StripByte(o, t, x_, y_) ==
  LET r == (o \div finfo.line_length) - y_
      px == (o % finfo.line_length) \div BytesPerPixel
  IN  IF px >= x_ /\ px < x_ + FONT_WIDTH * Len(t)
      THEN IF GlyphBitOf(t[((px - x_) \div FONT_WIDTH) + 1], r, (px - x_) % FONT_WIDTH) = 1
           THEN 255 ELSE 0
      ELSE 0

\* The tick has drawn its text and has not yet composed the next one.
TickDrawn == tick.begun /\ pc \in {"advance", "sleep", "while", "get_asctime"}

\* C15: when a tick whose text fits in a row has drawn it, every byte of
\* the strip is what that text at that offset gives: the glyph's pixel in
\* a cell, zero elsewhere.
C15_StripShowsText ==
  TickDrawn /\ TextFits(tick.x0, Len(text)) =>
    \A o \in DOMAIN fb : InStrip(o, y) => fb[o] = StripByte(o, text, tick.x0, y)

\* C15 where the strip lies inside the mapping: the same, for the ticks
\* whose writes are all within [0, smem_len).
C15_StripShowsTextInBounds ==
  TickDrawn /\ TextFits(tick.x0, Len(text)) /\ y >= 0
    /\ (y + FONT_HEIGHT) * finfo.line_length <= finfo.smem_len =>
    \A o \in DOMAIN fb : InStrip(o, y) => fb[o] = StripByte(o, text, tick.x0, y)

\* A one-character text was drawn at 6, in the tick after the one that
\* drew at 5, on the padded 16-bit device.
C15_InBoundsWitness ==
  /\ pc = "sleep" /\ Len(text) = 1 /\ tick.x0 = 6 /\ finfo.line_length = 99 /\ y = 2
  /\ \E o \in DOMAIN fb : InStrip(o, y) /\ fb[o] = 255

\* The length of the longest text.
StripTextLen == CHOOSE n \in { Len(t) : t \in StripTexts } : \A t \in StripTexts : Len(t) <= n

\* C18: a step of a tick whose text fits in a row at the current offset
\* changes no byte outside the strip of the rows yres - 10 to yres - 3;
\* on a device whose rows hold every text at every offset the bytes
\* outside the strip are as they were mapped.
C18_OutsideStripUntouched ==
  /\ [][InLoop /\ TextFits(x, Len(text)) =>
          /\ DOMAIN fb' = DOMAIN fb
          /\ \A o \in DOMAIN fb : ~InStrip(o, vinfo.yres - 10) => fb'[o] = fb[o]]_vars
  /\ [](InLoop /\ TextFits(21, StripTextLen) =>
          \A o \in DOMAIN fb : ~InStrip(o, vinfo.yres - 10) => fb[o] = Background(o))

\* The longest text was drawn at 21 on the padded 16-bit device.
C18_Witness ==
  /\ pc = "sleep" /\ tick.x0 = 21 /\ Len(text) = StripTextLen /\ finfo.line_length = 99
  /\ \E o \in DOMAIN fb : InStrip(o, vinfo.yres - 10) /\ fb[o] = 255
  /\ \A o \in DOMAIN fb : ~InStrip(o, vinfo.yres - 10) => fb[o] = Background(o)
====
